---- MODULE Spec2Model ----
(***************************************************************************)
(* A model of swingby.core.simulation.OrbitSimulation: the mission         *)
(* sequencer run_simulation, the segment propagator                        *)
(* propagate_orbit_segment, the initial condition builder, save_results    *)
(* and the ephemeris helpers they call, and of the free equation-of-motion *)
(* functions of src/equation_of_motion.py.  Spec has every script build    *)
(* one instance per call; SpecReuse keeps one instance for several calls.  *)
(*                                                                         *)
(* Numbers live on a small integer grid.  Times are integer seconds, as in *)
(* the source (np.int64 grids).  Calendar instants are day numbers:        *)
(* dt_start is a day, dt_start + timedelta(days=k) is dt_start + k.        *)
(* Positions and velocities are integers; the gravity table, the radius    *)
(* table and the ephemeris hold small surrogate values in place of the     *)
(* physical ones, which do not fit TLC's integers once cubed.              *)
(***************************************************************************)
EXTENDS Integers, Sequences, FiniteSets, TLC

VARIABLES
    solutions,                  \* self.solutions: list of per-segment arrays
    timeseries,                 \* self.timeseries: None or the daily series
    planet_coordinates,         \* self.planet_coordinates: None or a dict
    spacecraft_earth_distance,  \* self.spacecraft_earth_distance
    pc,                         \* position of the calling script
    outcome,                    \* how the last call ended
    args,                       \* arguments of the last run_simulation call
    calls,                      \* history: arguments of each propagate_orbit_segment call
    returned,                   \* history: what each such call returned
    succeeded,                  \* history: a run_simulation call on this instance returned
    saved,                      \* what the last call did, if it was save_results
    evaluated                   \* the last call and its result, if it was a direct
                                \* call of a function that leaves the instance alone

vars == <<solutions, timeseries, planet_coordinates,
          spacecraft_earth_distance, pc, outcome, args, calls, returned,
          succeeded, saved, evaluated>>

-----------------------------------------------------------------------------
(* Bounds of the model *)

MaxSeg == 2
MaxDays == 2

-----------------------------------------------------------------------------
(* Generic helpers *)

None == [some |-> FALSE, val |-> <<>>]
Some(v) == [some |-> TRUE, val |-> v]

Min(a, b) == IF a <= b THEN a ELSE b
Last(s) == s[Len(s)]

RECURSIVE SumSeq(_)
SumSeq(s) == IF s = <<>> THEN 0 ELSE Head(s) + SumSeq(Tail(s))

RECURSIVE Concat(_)
Concat(ss) == IF ss = <<>> THEN <<>> ELSE Head(ss) \o Concat(Tail(ss))

Range(s) == {s[k] : k \in 1..Len(s)}

\* truncating division, symmetric in the sign of the numerator
Quot(a, b) == IF a >= 0 THEN a \div b ELSE 0 - ((0 - a) \div b)

RECURSIVE SqrtFrom(_, _)
SqrtFrom(n, r) == IF (r + 1) * (r + 1) > n THEN r ELSE SqrtFrom(n, r + 1)
\* np.sqrt on the integer grid (floor)
ISqrt(n) == SqrtFrom(n, 0)

-----------------------------------------------------------------------------
(* Physical constants: swingby/physics/constants.py *)

\* 24 * 60 * 60, the step of every time grid
SecPerDay == 86400

\* Config.r_earth, one astronomical unit in grid units
r_earth == 8

\* Config.dict_GM, restricted to three bodies
dict_GM == [b \in {"sun", "venus", "earth"} |->
              CASE b = "sun" -> 128
                [] b = "venus" -> 64
                [] b = "earth" -> 96]

\* Config.dict_planet_radius, restricted to the same bodies
dict_planet_radius == [b \in {"sun", "venus", "earth"} |->
                         CASE b = "sun" -> 3
                           [] b = "venus" -> 2
                           [] b = "earth" -> 2]

\* Config.v_earth = np.sqrt(1.327e11 / r_earth)
v_earth == ISqrt(dict_GM["sun"] \div r_earth)

-----------------------------------------------------------------------------
(* Ephemeris provider (astropy, de432s): a fixed table of positions.       *)
(* "moon" is a body of the ephemeris that the gravity table lacks;         *)
(* any other name is unknown and the lookup raises KeyError.               *)

EphemerisBodies == {"venus", "earth", "moon"}

Cos4 == <<1, 0, -1, 0>>
Sin4 == <<0, 1, 0, -1>>

OrbitRadius(b) == CASE b = "venus" -> 4 [] b = "earth" -> r_earth [] b = "moon" -> r_earth + 1
OrbitPhase(b) == CASE b = "venus" -> 3 [] b = "earth" -> 0 [] b = "moon" -> 0
OrbitHeight(b) == CASE b = "venus" -> 3 [] b = "earth" -> 5 [] b = "moon" -> 7

\* get_body_barycentric(body, Time(day)): the body's x, y, z at that day
get_body_barycentric(b, day) ==
    LET q == ((day + OrbitPhase(b)) % 4) + 1
    IN  [x |-> OrbitRadius(b) * Cos4[q],
         y |-> OrbitRadius(b) * Sin4[q],
         z |-> OrbitHeight(b)]

\* swingby/utils/ephemeris.py get_planet_coord: every body of the list is
\* looked up first (an unknown name raises), then the dict is filled; its
\* 'z' entry is assigned from _coord.x
get_planet_coord(timestamp, planet_list) ==
    IF \E k \in 1..Len(planet_list) : planet_list[k] \notin EphemerisBodies
    THEN [err |-> "KeyError", val |-> << >>]
    ELSE [err |-> "none",
          val |-> [p \in Range(planet_list) |->
                     LET _coord == get_body_barycentric(p, timestamp)
                     IN  [x |-> _coord.x, y |-> _coord.y, z |-> _coord.x]]]

\* the values one timestamp appends to dict[_planet][_key]: one per
\* occurrence of _planet in planet_list
RECURSIVE AppendsAt(_, _, _, _)
AppendsAt(coord, planet_list, p, key) ==
    IF planet_list = << >> THEN << >>
    ELSE (IF Head(planet_list) = p THEN << coord[p][key] >> ELSE << >>)
         \o AppendsAt(coord, Tail(planet_list), p, key)

RECURSIVE CoordSeries(_, _, _, _)
CoordSeries(ts, planet_list, p, key) ==
    IF ts = << >> THEN << >>
    ELSE AppendsAt(get_planet_coord(Head(ts), planet_list).val, planet_list, p, key)
         \o CoordSeries(Tail(ts), planet_list, p, key)

\* swingby/utils/ephemeris.py get_planet_coord_timeseries
get_planet_coord_timeseries(ts, planet_list) ==
    IF ts # << >> /\ get_planet_coord(Head(ts), planet_list).err # "none"
    THEN [err |-> "KeyError", val |-> << >>]
    ELSE [err |-> "none",
          val |-> [p \in Range(planet_list) |->
                     [key \in {"x", "y", "z"} |->
                        CoordSeries(ts, planet_list, p, key)]]]

-----------------------------------------------------------------------------
(* Equation of motion: swingby/physics/dynamics.py, built from section 4.1 *)
(* of the specification.  State vector <<x, y, vx, vy>>.  Operators take   *)
(* the values they share as parameters.                                    *)

\* -GM * rel / d^3 for one attracting body at relative vector (rx, ry),
\* d its norm
GravityAt(gm, rx, ry, d) ==
    IF d = 0 THEN <<0, 0>>
    ELSE <<0 - Quot(gm * rx, d * d * d), 0 - Quot(gm * ry, d * d * d)>>
Gravity(gm, rx, ry) == GravityAt(gm, rx, ry, ISqrt(rx * rx + ry * ry))

\* one planet at relative vector (rx, ry): the collision guard, then its pull
PlanetPull(p, rx, ry) ==
    IF ISqrt(rx * rx + ry * ry) < dict_planet_radius[p]
    THEN [err |-> "SwingbyCollisionError", a |-> <<0, 0>>]
    ELSE [err |-> "none", a |-> Gravity(dict_GM[p], rx, ry)]

\* one active planet: a name the ephemeris or a table lacks raises
PlanetTerm(x, day, p) ==
    IF p \notin EphemerisBodies \/ p \notin DOMAIN dict_GM
         \/ p \notin DOMAIN dict_planet_radius
    THEN [err |-> "KeyError", a |-> <<0, 0>>]
    ELSE PlanetPull(p, x[1] - get_body_barycentric(p, day).x,
                       x[2] - get_body_barycentric(p, day).y)

\* the first failing planet, in list order, ends the evaluation
AddTerms(first, rest) ==
    IF first.err # "none" THEN first
    ELSE IF rest.err # "none" THEN rest
    ELSE [err |-> "none", a |-> <<first.a[1] + rest.a[1], first.a[2] + rest.a[2]>>]

RECURSIVE PlanetTerms(_, _, _)
PlanetTerms(x, day, planet_list) ==
    IF planet_list = << >> THEN [err |-> "none", a |-> <<0, 0>>]
    ELSE AddTerms(PlanetTerm(x, day, Head(planet_list)),
                  PlanetTerms(x, day, Tail(planet_list)))

\* (vx, vy, sum of ax, sum of ay) with the Sun fixed at the origin
Derivative(x, pt, sun) ==
    IF pt.err # "none" THEN [err |-> pt.err, dxdt |-> <<0, 0, 0, 0>>]
    ELSE [err |-> "none",
          dxdt |-> <<x[3], x[4], sun[1] + pt.a[1], sun[2] + pt.a[2]>>]

orbital_equation_of_motion_nbody(x, t, dt_start, planet_list) ==
    Derivative(x, PlanetTerms(x, dt_start + (t \div SecPerDay), planet_list),
               Gravity(dict_GM["sun"], x[1], x[2]))

-----------------------------------------------------------------------------
(* The free functions of src/equation_of_motion.py.  Their constants are   *)
(* literals of the function bodies, here in grid units; Earth moves on a   *)
(* circle of radius a1 with period period1, a quarter turn per day on the  *)
(* grid, theta1 counting quarter turns.                                    *)

\* GM = 1.327e11 (Sun), GM1 = 3.986e5 (Earth)
GM == 128
GM1 == 96
\* period1 = 365*24*60*60, in days on the grid
period1 == 4
\* a1 = 149597870.7
a1 == 8
\* the literal 6371 of the collision test
EarthRadiusKm == 2

\* -GM*x/(r_norm**3) for one coordinate x
CentralAccel(gm, x, r_norm) == 0 - Quot(gm * x, r_norm * r_norm * r_norm)

\* orbital_equation_of_motion_twobody(x, t): t is not used
orbital_equation_of_motion_twobody_swapped(x, t) ==
    [err |-> "none",
     dxdt |-> <<x[4], x[3],
                CentralAccel(GM, x[1], ISqrt(x[1] * x[1] + x[2] * x[2])),
                CentralAccel(GM, x[2], ISqrt(x[1] * x[1] + x[2] * x[2]))>>]
orbital_equation_of_motion_twobody_earthGM(x, t) ==
    [err |-> "none",
     dxdt |-> <<x[3], x[4],
                CentralAccel(GM1, x[1], ISqrt(x[1] * x[1] + x[2] * x[2])),
                CentralAccel(GM1, x[2], ISqrt(x[1] * x[1] + x[2] * x[2]))>>]
orbital_equation_of_motion_twobody(x, t) ==
    [err |-> "none",
     dxdt |-> <<x[3], x[4],
                CentralAccel(GM, x[1], ISqrt(x[1] * x[1] + x[2] * x[2])),
                CentralAccel(GM, x[2], ISqrt(x[1] * x[1] + x[2] * x[2]))>>]

\* r1: Earth on its circle at time t
CircularEarth(t, theta1) ==
    <<a1 * Cos4[(((t \div SecPerDay) + theta1) % period1) + 1],
      a1 * Sin4[(((t \div SecPerDay) + theta1) % period1) + 1]>>

\* the function from the collision test on: sys.exit() raises SystemExit,
\* which ends the process unless a caller catches BaseException
NBodyFrom(x, d1, r_norm, d1_norm) ==
    IF d1_norm < EarthRadiusKm
    THEN [err |-> "SystemExit", dxdt |-> <<0, 0, 0, 0>>]
    ELSE [err |-> "none",
          dxdt |-> <<x[3], x[4],
                     CentralAccel(GM, x[1], r_norm) + CentralAccel(GM1, d1[1], d1_norm),
                     CentralAccel(GM, x[2], r_norm) + CentralAccel(GM1, d1[2], d1_norm)>>]

NBodyAt(x, d1) ==
    NBodyFrom(x, d1, ISqrt(x[1] * x[1] + x[2] * x[2]),
              ISqrt(d1[1] * d1[1] + d1[2] * d1[2]))

\* orbital_equation_of_motion_nbody(x, t, theta1) of src/equation_of_motion.py
circular_equation_of_motion_nbody(x, t, theta1) ==
    NBodyAt(x, <<x[1] - CircularEarth(t, theta1)[1],
                 x[2] - CircularEarth(t, theta1)[2]>>)

-----------------------------------------------------------------------------
(* Segment propagator: swingby/core/simulation.py                          *)

\* np.arange(t_start, t_start + travel_days * 24 * 60 * 60, 24 * 60 * 60):
\* the half-open range, empty when travel_days <= 0
TimeGrid_inclusive(t_start, travel_days) ==
    [k \in 1..(travel_days + 1) |-> t_start + (k - 1) * SecPerDay]
TimeGrid(t_start, travel_days) ==
    [k \in 1..travel_days |-> t_start + (k - 1) * SecPerDay]

\* one grid interval of the integrator: the state at t1 from the state at
\* t0, the derivative taken at t0 (time in days for the update)
OdeStep(x, dxdt, t0, t1) ==
    <<x[1] + dxdt[1] * ((t1 - t0) \div SecPerDay),
      x[2] + dxdt[2] * ((t1 - t0) \div SecPerDay),
      x[3] + dxdt[3] * ((t1 - t0) \div SecPerDay),
      x[4] + dxdt[4] * ((t1 - t0) \div SecPerDay)>>

\* the rows after sol, one per remaining grid time; d is the derivative at
\* the last row, and an exception of the equation of motion ends the call
RECURSIVE Integrate(_, _, _, _)
RECURSIVE IntegrateFrom(_, _, _, _, _)
IntegrateFrom(sol, d, t_span, dt_start, planet_list) ==
    IF d.err # "none" THEN [err |-> d.err, sol |-> << >>]
    ELSE Integrate(Append(sol, OdeStep(Last(sol), d.dxdt, t_span[Len(sol)],
                                       t_span[Len(sol) + 1])),
                   t_span, dt_start, planet_list)
Integrate(sol, t_span, dt_start, planet_list) ==
    IF Len(sol) = Len(t_span) THEN [err |-> "none", sol |-> sol]
    ELSE IntegrateFrom(sol,
                       orbital_equation_of_motion_nbody(Last(sol), t_span[Len(sol)],
                                                        dt_start, planet_list),
                       t_span, dt_start, planet_list)

\* scipy.integrate.odeint: one row per grid time, row 1 the initial state.
\* What it does with an empty grid is the library's choice: onEmpty is
\* "raises" (a ValueError) or "returns" (an array of no rows).
odeint(x0, t_span, dt_start, planet_list, onEmpty) ==
    IF t_span = << >>
    THEN IF onEmpty = "raises" THEN [err |-> "ValueError", sol |-> << >>]
         ELSE [err |-> "none", sol |-> << >>]
    ELSE Integrate(<<x0>>, t_span, dt_start, planet_list)

\* return solution, t_span_sec
SegmentResult(r, t_span_sec) ==
    [err |-> r.err, solution |-> r.sol, t_span |-> t_span_sec]

propagate_orbit_segment(x0, travel_days, t_start, dt_start, planet_list, onEmpty) ==
    SegmentResult(odeint(x0, TimeGrid(t_start, travel_days), dt_start,
                         planet_list, onEmpty),
                  TimeGrid(t_start, travel_days))

-----------------------------------------------------------------------------
(* Initial condition builder *)

\* v_sc_x = -(v_earth + v_inf), v_sc_y = v_inf * 0.5
calculate_initial_velocity_opposed(v_inf) ==
    <<0 - (v_earth - v_inf), (v_inf * 5) \div 10>>
calculate_initial_velocity(v_inf) ==
    <<0 - (v_earth + v_inf), (v_inf * 5) \div 10>>

setup_initial_conditions(dt_start, v_inf) ==
    <<get_body_barycentric("earth", dt_start).x + 1 * dict_planet_radius["earth"],
      get_body_barycentric("earth", dt_start).y,
      calculate_initial_velocity(v_inf)[1],
      calculate_initial_velocity(v_inf)[2]>>

-----------------------------------------------------------------------------
(* Mission sequencer: OrbitSimulation.run_simulation                       *)

\* zip(travel_days, delta_V) stops at the shorter list
ZipLen(travel_days, delta_V) == Min(Len(travel_days), Len(delta_V))

\* the active planet list of segment i (0-based): none for the first
ActivePlanets_always(i, planet_list) == planet_list
ActivePlanets(i, planet_list) == IF i = 0 THEN << >> ELSE planet_list

\* last row plus [0, 0, _delta_V[0], _delta_V[1]]
AddDeltaV(last, _delta_V) ==
    <<last[1], last[2], last[3] + _delta_V[1], last[4] + _delta_V[2]>>

\* x0 = self.solutions[-1][-1, :] + [0, 0, _delta_V[0], _delta_V[1]]:
\* the sum is a new array, the stored rows stay as they are
ApplyDeltaV_inplace(sols, _delta_V) ==
    [x0 |-> AddDeltaV(Last(Last(sols)), _delta_V),
     solutions |-> [sols EXCEPT ![Len(sols)][Len(Last(sols))] =
                                   AddDeltaV(Last(Last(sols)), _delta_V)]]
ApplyDeltaV(sols, _delta_V) ==
    [x0 |-> AddDeltaV(Last(Last(sols)), _delta_V), solutions |-> sols]

\* self.solutions.append(solution)
StoreSolution_overwrite(sols, solution) == <<solution>>
StoreSolution(sols, solution) == Append(sols, solution)

\* t_current = t_span[-1]
NextStart(t_span) == Last(t_span)

\* The for loop over the segments, from iteration i (0-based) on.  st
\* carries x0, t_current, self.solutions and the two histories; st.err
\* names the exception that ended the loop.  m is x0 and self.solutions
\* after the if/else of the iteration, call the arguments handed to the
\* propagator and r what it returned.
RECURSIVE SegmentLoop(_, _, _, _)
RECURSIVE AfterPropagate(_, _, _, _, _, _, _)
AfterPropagate(i, st, m, call, r, a, onEmpty) ==
    IF r.err # "none"
    THEN [st EXCEPT !.err = r.err, !.x0 = m.x0, !.solutions = m.solutions,
                    !.calls = Append(st.calls, call)]
    ELSE IF r.t_span = << >>
    THEN [st EXCEPT !.err = "IndexError", !.x0 = m.x0,
                    !.solutions = StoreSolution(m.solutions, r.solution),
                    !.calls = Append(st.calls, call),
                    !.returned = Append(st.returned,
                                        [solution |-> r.solution, t_span |-> r.t_span])]
    ELSE SegmentLoop(i + 1,
                     [err |-> "none", x0 |-> m.x0,
                      t_current |-> NextStart(r.t_span),
                      solutions |-> StoreSolution(m.solutions, r.solution),
                      calls |-> Append(st.calls, call),
                      returned |-> Append(st.returned,
                                          [solution |-> r.solution, t_span |-> r.t_span])],
                     a, onEmpty)

Propagate(i, st, m, a, onEmpty) ==
    AfterPropagate(i, st, m,
                   [x0 |-> m.x0, travel_days |-> a.travel_days[i + 1],
                    t_start |-> st.t_current,
                    planet_list |-> ActivePlanets(i, a.planet_list)],
                   propagate_orbit_segment(m.x0, a.travel_days[i + 1], st.t_current,
                                           a.dt_start,
                                           ActivePlanets(i, a.planet_list), onEmpty),
                   a, onEmpty)

SegmentLoop_firstDeltaV(i, st, a, onEmpty) ==
    IF i = ZipLen(a.travel_days, a.delta_V) THEN st
    ELSE Propagate(i, st,
                   IF i = 0
                   THEN [x0 |-> AddDeltaV(st.x0, a.delta_V[1]), solutions |-> st.solutions]
                   ELSE ApplyDeltaV(st.solutions, a.delta_V[i + 1]),
                   a, onEmpty)
SegmentLoop(i, st, a, onEmpty) ==
    IF i = ZipLen(a.travel_days, a.delta_V) THEN st
    ELSE Propagate(i, st,
                   IF i = 0 THEN [x0 |-> st.x0, solutions |-> st.solutions]
                   ELSE ApplyDeltaV(st.solutions, a.delta_V[i + 1]),
                   a, onEmpty)

\* pd.date_range(dt_start, dt_end, freq="D"): both ends included, empty
\* when dt_end is before dt_start
date_range(dt_start, dt_end) ==
    [k \in 1..(dt_end - dt_start + 1) |-> dt_start + (k - 1)]

\* column c of every stored solution, concatenated
Column(sols, c) == Concat([i \in 1..Len(sols) |->
                             [k \in 1..Len(sols[i]) |-> sols[i][k][c]]])

\* numpy broadcasting of two 1-D arrays: equal lengths, or one of length 1
CanBroadcast(la, lb) == la = lb \/ la = 1 \/ lb = 1
BroadcastLen(la, lb) == IF la = 1 THEN lb ELSE la
At(arr, k) == IF Len(arr) = 1 THEN arr[1] ELSE arr[k]

\* np.sqrt(np.power(earth_x - sc_x, 2) + np.power(earth_y - sc_y, 2))
DistanceArray(earth_x, earth_y, sc_x, sc_y) ==
    IF ~CanBroadcast(Len(earth_x), Len(sc_x))
    THEN [err |-> "ValueError", val |-> << >>]
    ELSE [err |-> "none",
          val |-> [k \in 1..BroadcastLen(Len(earth_x), Len(sc_x)) |->
                     ISqrt((At(earth_x, k) - At(sc_x, k)) * (At(earth_x, k) - At(sc_x, k))
                         + (At(earth_y, k) - At(sc_y, k)) * (At(earth_y, k) - At(sc_y, k)))]]

\* OrbitSimulation._calculate_spacecraft_earth_distance: self after the
\* call.  np.concatenate of an empty list raises, and so does a subtraction
\* of arrays that do not broadcast.
StoreDistance(self, dist) ==
    IF dist.err # "none" THEN [self EXCEPT !.outcome = dist.err]
    ELSE [self EXCEPT !.spacecraft_earth_distance = Some(dist.val)]

calculate_spacecraft_earth_distance(self) ==
    IF "earth" \notin DOMAIN self.planet_coordinates.val THEN self
    ELSE IF self.solutions = << >> THEN [self EXCEPT !.outcome = "ValueError"]
    ELSE StoreDistance(self,
                       DistanceArray(self.planet_coordinates.val["earth"]["x"],
                                     self.planet_coordinates.val["earth"]["y"],
                                     Column(self.solutions, 1),
                                     Column(self.solutions, 2)))

\* lines 170-178: the time series, the planet coordinates, the distance
StoreCoordinates(self, pcs) ==
    IF pcs.err # "none" THEN [self EXCEPT !.outcome = pcs.err]
    ELSE calculate_spacecraft_earth_distance(
             [self EXCEPT !.planet_coordinates = Some(pcs.val)])

AfterLoop(self, a) ==
    StoreCoordinates(
        [self EXCEPT !.timeseries =
            Some(date_range(a.dt_start, a.dt_start + (SumSeq(a.travel_days) - 1)))],
        get_planet_coord_timeseries(
            date_range(a.dt_start, a.dt_start + (SumSeq(a.travel_days) - 1)),
            a.planet_list))

\* self with the loop's results; outcome "returned" unless a later line raises
AfterSegments_swallow(self, st, a) ==
    AfterLoop([self EXCEPT !.solutions = st.solutions, !.calls = st.calls,
                           !.returned = st.returned, !.outcome = "returned"],
              a)
AfterSegments(self, st, a) ==
    IF st.err # "none"
    THEN [self EXCEPT !.solutions = st.solutions, !.calls = st.calls,
                      !.returned = st.returned, !.outcome = st.err]
    ELSE AfterLoop([self EXCEPT !.solutions = st.solutions, !.calls = st.calls,
                                !.returned = st.returned, !.outcome = "returned"],
                   a)

\* One call of run_simulation on the instance self, with the arguments a:
\* the instance after the call, outcome naming how the call ended
\* ("returned", or the exception that left it).
run_simulation(self, a, onEmpty) ==
    AfterSegments(self,
                  SegmentLoop(0, [err |-> "none",
                                  x0 |-> setup_initial_conditions(a.dt_start, a.v_inf),
                                  t_current |-> 0, solutions |-> << >>,
                                  calls |-> << >>, returned |-> << >>],
                              a, onEmpty),
                  a)

-----------------------------------------------------------------------------
(* OrbitSimulation.save_results and the plotter it calls *)

\* OrbitPlotter.plot_orbit: planet_coordinates.items() fails on None
plot_orbit(_solutions, _planet_coordinates) ==
    IF _planet_coordinates.some THEN "none" ELSE "AttributeError"

\* after a plot_orbit call that returned: plot_distance when a distance is set
AfterPlotOrbit(self) ==
    [outcome |-> "returned", mkdir |-> TRUE,
     plots |-> IF self.spacecraft_earth_distance.some
               THEN <<"plot_orbit", "plot_distance">>
               ELSE <<"plot_orbit">>]

\* what one save_results call does: how it ends, whether it created the
\* output directory, the plotter methods it called
save_results(self) ==
    IF self.solutions = << >>
    THEN [outcome |-> "ValueError", mkdir |-> FALSE, plots |-> << >>]
    ELSE IF plot_orbit(self.solutions, self.planet_coordinates) # "none"
    THEN [outcome |-> plot_orbit(self.solutions, self.planet_coordinates),
          mkdir |-> TRUE, plots |-> <<"plot_orbit">>]
    ELSE AfterPlotOrbit(self)

-----------------------------------------------------------------------------
(* swingby/utils/coordinates.py.  Angles count quarter turns, so that      *)
(* np.cos and np.sin are exact on the grid.                                *)

\* x * np.cos(phase) - y * np.sin(phase) for one sample
RotX(x, y, phase) == x * Cos4[(phase % 4) + 1] - y * Sin4[(phase % 4) + 1]
\* x * np.sin(phase) + y * np.cos(phase) for one sample
RotY(x, y, phase) == x * Sin4[(phase % 4) + 1] + y * Cos4[(phase % 4) + 1]

\* phase = float(omega) * np.array(time); the arrays broadcast
transform_to_rotating_coordinate_system_swapped(x, y, omega, time) ==
    <<[k \in 1..BroadcastLen(Len(x), Len(time)) |->
         RotY(At(x, k), At(y, k), omega * At(time, k))],
      [k \in 1..BroadcastLen(Len(x), Len(time)) |->
         RotX(At(x, k), At(y, k), omega * At(time, k))]>>
transform_to_rotating_coordinate_system(x, y, omega, time) ==
    <<[k \in 1..BroadcastLen(Len(x), Len(time)) |->
         RotX(At(x, k), At(y, k), omega * At(time, k))],
      [k \in 1..BroadcastLen(Len(x), Len(time)) |->
         RotY(At(x, k), At(y, k), omega * At(time, k))]>>

-----------------------------------------------------------------------------
(* Inputs *)

Durations == (0 - 1)..MaxDays
TravelDayLists == UNION {[1..n -> Durations] : n \in 0..MaxSeg}
DeltaVs == {<<0, 0>>, <<1, 0 - 1>>}
DeltaVLists == UNION {[1..n -> DeltaVs] : n \in 0..MaxSeg}
PlanetLists == {<< >>, <<"earth">>, <<"venus", "earth">>, <<"earth", "vulcan">>,
                <<"moon">>, <<"earth", "earth">>}
StartDays == {0, 1}
Launches == {[v_inf |-> 2, dt_start |-> 0], [v_inf |-> 4, dt_start |-> 1]}
TStarts == {0 - SecPerDay, 0 - 1, 0, 1, SecPerDay, 2 * SecPerDay + 7}
OnEmpty == {"raises", "returns"}

\* direct evaluations of the equations of motion and of the initial
\* condition builder.  The Sun's own position (0, 0) is left out: there the
\* functions divide zero by zero.
EvalPositions == {<<8, 0>>, <<9, 0>>, <<10, 0>>, <<0, 8>>, <<0 - 6, 0>>,
                  <<0 - 6, 1>>, <<3, 4>>, <<0, 0 - 7>>}
EvalVelocities == {<<0, 0>>, <<0 - 6, 1>>, <<3, 4>>}
EvalStates == {<<r[1], r[2], v[1], v[2]>> : r \in EvalPositions, v \in EvalVelocities}
EvalTimes == {0, SecPerDay, 2 * SecPerDay + 7}
Thetas == 0..3
SetupDays == 0..3
\* v_inf > 0, even so that v_inf * 0.5 is exact on the grid
PositiveVInfs == {2, 4, 6}

\* arrays of one or two samples for the coordinate transformation
Coordinates == {0 - 1, 0, 2}
CoordinateArrays(n) == [1..n -> Coordinates]
Omegas == {0 - 1, 0, 1}
PhaseTimes == {0, 1, 2}
TimeArrays(n) == [1..n -> PhaseTimes]

\* daily series of up to two timestamps for the ephemeris helpers
Timeseries == {date_range(d, d + n - 1) : d \in StartDays, n \in 0..2}

\* the mission parameters of a script: the same delta-V in every segment
MissionDeltaVs(n) == {[k \in 1..n |-> d] : d \in DeltaVs}

\* the runs of an instance that is used more than once
ReuseTravelDays == {<<1>>, <<2>>, <<1, 2>>, <<2, 0>>}
ReusePlanetLists == {<< >>, <<"earth">>, <<"earth", "vulcan">>}
ZeroDeltaV(n) == [k \in 1..n |-> <<0, 0>>]

-----------------------------------------------------------------------------
(* The state machine *)

\* the instance as a record of its fields and of the histories
Self == [solutions |-> solutions, timeseries |-> timeseries,
         planet_coordinates |-> planet_coordinates,
         spacecraft_earth_distance |-> spacecraft_earth_distance,
         outcome |-> outcome, calls |-> calls, returned |-> returned]

\* OrbitSimulation.__init__
Fresh == [solutions |-> << >>, timeseries |-> None, planet_coordinates |-> None,
          spacecraft_earth_distance |-> None,
          outcome |-> "none", calls |-> << >>, returned |-> << >>]

(* src/pluto_mission.py: main, from the run_simulation call on *)

\* what an OrbitSimulation instance has: the fields __init__ sets and the
\* methods of the class
InstanceAttributes ==
    {"config", "plotter", "solutions", "timeseries", "planet_coordinates",
     "spacecraft_earth_distance", "calculate_initial_velocity",
     "setup_initial_conditions", "propagate_orbit_segment", "run_simulation",
     "_calculate_spacecraft_earth_distance", "save_results"}

\* the budget 5.0 km/s of the script, in grid units
MaxTotalDeltaV == 1

\* lines 39-42, sim being the instance after a run that returned
AfterRunSimulation(sim) ==
    IF "total_delta_v" \notin InstanceAttributes
    THEN [run |-> "returned", outcome |-> "AttributeError", save |-> None]
    ELSE IF sim.total_delta_v > MaxTotalDeltaV
    THEN [run |-> "returned", outcome |-> "ValueError", save |-> None]
    ELSE [run |-> "returned", outcome |-> save_results(sim).outcome,
          save |-> Some(save_results(sim))]

\* an exception of run_simulation leaves main at once
AfterRun(sim) ==
    IF sim.outcome # "returned"
    THEN [run |-> sim.outcome, outcome |-> sim.outcome, save |-> None]
    ELSE AfterRunSimulation(sim)

\* main with the mission parameters a: how run_simulation ended, how main
\* ended, and what save_results did if it was called
pluto_mission_main(a, onEmpty) == AfterRun(run_simulation(Fresh, a, onEmpty))

Assign(self) ==
    /\ solutions' = self.solutions
    /\ timeseries' = self.timeseries
    /\ planet_coordinates' = self.planet_coordinates
    /\ spacecraft_earth_distance' = self.spacecraft_earth_distance
    /\ outcome' = self.outcome
    /\ calls' = self.calls
    /\ returned' = self.returned

Init ==
    /\ solutions = Fresh.solutions
    /\ timeseries = Fresh.timeseries
    /\ planet_coordinates = Fresh.planet_coordinates
    /\ spacecraft_earth_distance = Fresh.spacecraft_earth_distance
    /\ outcome = Fresh.outcome
    /\ calls = Fresh.calls
    /\ returned = Fresh.returned
    /\ pc = "constructed"
    /\ args = None
    /\ succeeded = FALSE
    /\ saved = None
    /\ evaluated = None

\* a script builds a new OrbitSimulation
Construct ==
    /\ pc = "done"
    /\ Assign(Fresh)
    /\ pc' = "constructed"
    /\ args' = None
    /\ succeeded' = FALSE
    /\ saved' = None
    /\ evaluated' = None

\* one call of run_simulation, from its first line to its return or to the
\* exception that leaves it
RunSimulation(v_inf, dt_start, travel_days, delta_V, planet_list, onEmpty) ==
    /\ Assign(run_simulation(Self,
                             [v_inf |-> v_inf, dt_start |-> dt_start,
                              travel_days |-> travel_days, delta_V |-> delta_V,
                              planet_list |-> planet_list],
                             onEmpty))
    /\ args' = Some([v_inf |-> v_inf, dt_start |-> dt_start,
                     travel_days |-> travel_days, delta_V |-> delta_V,
                     planet_list |-> planet_list])
    /\ succeeded' = (succeeded \/ outcome' = "returned")
    /\ saved' = None
    /\ evaluated' = None
    /\ pc' = "done"

\* what a direct call leaves in the histories
DirectCall(call, r) ==
    /\ calls' = <<call>>
    /\ returned' = IF r.err = "none"
                   THEN <<[solution |-> r.solution, t_span |-> r.t_span]>>
                   ELSE << >>
    /\ outcome' = IF r.err = "none" THEN "returned" ELSE r.err

\* one direct call of the public method propagate_orbit_segment
PropagateOrbitSegment(x0, travel_days, t_start, dt_start, planet_list, onEmpty) ==
    /\ DirectCall([x0 |-> x0, travel_days |-> travel_days,
                   t_start |-> t_start, planet_list |-> planet_list],
                  propagate_orbit_segment(x0, travel_days, t_start, dt_start,
                                          planet_list, onEmpty))
    /\ pc' = "done"
    /\ saved' = None
    /\ evaluated' = None
    /\ UNCHANGED <<solutions, timeseries, planet_coordinates,
                   spacecraft_earth_distance, args, succeeded>>

\* one call of save_results; the instance is left as it was
SaveResults ==
    /\ saved' = Some(save_results(Self))
    /\ evaluated' = None
    /\ pc' = "done"
    /\ UNCHANGED <<solutions, timeseries, planet_coordinates,
                   spacecraft_earth_distance, outcome, args, calls, returned,
                   succeeded>>

\* a direct call of the function fn with the arguments in, which gave out
Evaluate(fn, in, out) ==
    /\ evaluated' = Some([fn |-> fn, in |-> in, out |-> out])
    /\ saved' = None
    /\ pc' = "done"
    /\ UNCHANGED <<solutions, timeseries, planet_coordinates,
                   spacecraft_earth_distance, outcome, args, calls, returned,
                   succeeded>>

EvaluateTwoBody(x, t) ==
    Evaluate("orbital_equation_of_motion_twobody", [x |-> x, t |-> t],
             orbital_equation_of_motion_twobody(x, t))

EvaluateCircularNBody(x, t, theta1) ==
    Evaluate("circular_equation_of_motion_nbody",
             [x |-> x, t |-> t, theta1 |-> theta1],
             circular_equation_of_motion_nbody(x, t, theta1))

EvaluateNBody(x, t, dt_start, planet_list) ==
    Evaluate("orbital_equation_of_motion_nbody",
             [x |-> x, t |-> t, dt_start |-> dt_start, planet_list |-> planet_list],
             orbital_equation_of_motion_nbody(x, t, dt_start, planet_list))

SetupInitialConditions(dt_start, v_inf) ==
    Evaluate("setup_initial_conditions", [dt_start |-> dt_start, v_inf |-> v_inf],
             setup_initial_conditions(dt_start, v_inf))

CalculateInitialVelocity(v_inf) ==
    Evaluate("calculate_initial_velocity", [v_inf |-> v_inf],
             calculate_initial_velocity(v_inf))

TransformToRotating(x, y, omega, time) ==
    Evaluate("transform_to_rotating_coordinate_system",
             [x |-> x, y |-> y, omega |-> omega, time |-> time],
             transform_to_rotating_coordinate_system(x, y, omega, time))

GetPlanetCoord(timestamp, planet_list) ==
    Evaluate("get_planet_coord",
             [timestamp |-> timestamp, planet_list |-> planet_list],
             get_planet_coord(timestamp, planet_list))

GetPlanetCoordTimeseries(ts, planet_list) ==
    Evaluate("get_planet_coord_timeseries",
             [timeseries |-> ts, planet_list |-> planet_list],
             get_planet_coord_timeseries(ts, planet_list))

\* one execution of the script pluto_mission.py, which builds its own
\* instance
PlutoMission(v_inf, dt_start, travel_days, delta_V, planet_list, onEmpty) ==
    Evaluate("pluto_mission.main",
             [v_inf |-> v_inf, dt_start |-> dt_start, travel_days |-> travel_days,
              delta_V |-> delta_V, planet_list |-> planet_list],
             pluto_mission_main([v_inf |-> v_inf, dt_start |-> dt_start,
                                 travel_days |-> travel_days, delta_V |-> delta_V,
                                 planet_list |-> planet_list], onEmpty))

\* the scripts of the repository (main.py, pluto_mission.py, the tests)
\* build one OrbitSimulation per call
Next ==
    \/ /\ pc = "constructed"
       /\ \E launch \in Launches, travel_days \in TravelDayLists,
             delta_V \in DeltaVLists, planet_list \in PlanetLists,
             onEmpty \in OnEmpty :
             RunSimulation(launch.v_inf, launch.dt_start, travel_days, delta_V,
                           planet_list, onEmpty)
    \/ /\ pc = "constructed"
       /\ \E launch \in Launches, travel_days \in Durations, t_start \in TStarts,
             dt_start \in StartDays, planet_list \in PlanetLists,
             onEmpty \in OnEmpty :
             PropagateOrbitSegment(
                 setup_initial_conditions(launch.dt_start, launch.v_inf),
                 travel_days, t_start, dt_start, planet_list, onEmpty)
    \/ /\ pc = "constructed"
       /\ \E x \in EvalStates, t \in EvalTimes : EvaluateTwoBody(x, t)
    \/ /\ pc = "constructed"
       /\ \E x \in EvalStates, t \in EvalTimes, theta1 \in Thetas :
             EvaluateCircularNBody(x, t, theta1)
    \/ /\ pc = "constructed"
       /\ \E x \in EvalStates, t \in EvalTimes, dt_start \in StartDays,
             planet_list \in PlanetLists :
             EvaluateNBody(x, t, dt_start, planet_list)
    \/ /\ pc = "constructed"
       /\ \E dt_start \in SetupDays, v_inf \in PositiveVInfs :
             SetupInitialConditions(dt_start, v_inf)
    \/ /\ pc = "constructed"
       /\ \E v_inf \in PositiveVInfs : CalculateInitialVelocity(v_inf)
    \/ /\ pc = "constructed"
       /\ \E n \in 1..2 :
             \E x \in CoordinateArrays(n), y \in CoordinateArrays(n),
                omega \in Omegas, time \in TimeArrays(n) :
                TransformToRotating(x, y, omega, time)
    \/ /\ pc = "constructed"
       /\ \E timestamp \in SetupDays, planet_list \in PlanetLists :
             GetPlanetCoord(timestamp, planet_list)
    \/ /\ pc = "constructed"
       /\ \E ts \in Timeseries, planet_list \in PlanetLists :
             GetPlanetCoordTimeseries(ts, planet_list)
    \/ /\ pc = "constructed"
       /\ \E launch \in Launches, travel_days \in ReuseTravelDays,
             planet_list \in ReusePlanetLists, onEmpty \in OnEmpty :
             \E delta_V \in MissionDeltaVs(Len(travel_days)) :
                PlutoMission(launch.v_inf, launch.dt_start, travel_days, delta_V,
                             planet_list, onEmpty)
    \/ Construct

Spec == Init /\ [][Next]_vars

\* a script that keeps one OrbitSimulation: run_simulation and save_results
\* in any order and any number of times (pluto_mission.py calls both on the
\* same instance)
NextReuse ==
    \/ \E launch \in Launches, travel_days \in ReuseTravelDays,
          planet_list \in ReusePlanetLists, onEmpty \in OnEmpty :
          RunSimulation(launch.v_inf, launch.dt_start, travel_days,
                        ZeroDeltaV(Len(travel_days)), planet_list, onEmpty)
    \/ SaveResults

SpecReuse == Init /\ [][NextReuse]_vars

-----------------------------------------------------------------------------
(* Properties *)

\* a run_simulation call has ended, with arguments RunArgs
Ran == args.some
RunArgs == args.val

\* the per-segment time grids of the last run, concatenated in segment order
ConcatGrid == Concat([k \in 1..Len(returned) |-> returned[k].t_span])

\* C1: a run_simulation call whose travel_days and delta_V differ in length
\* fails with a PreconditionError before any segment is propagated: no call
\* of propagate_orbit_segment, solutions empty.
C1_LengthMismatchRejected ==
    (Ran /\ Len(RunArgs.travel_days) # Len(RunArgs.delta_V))
        => (outcome = "PreconditionError" /\ calls = << >> /\ solutions = << >>)

\* C2: a run_simulation call with a zero or negative duration at any index
\* fails with a PreconditionError before the first segment is integrated.
C2_BadDurationRejected ==
    (Ran /\ \E k \in 1..Len(RunArgs.travel_days) : RunArgs.travel_days[k] <= 0)
        => (outcome = "PreconditionError" /\ calls = << >>)

\* C3: a run_simulation call whose planet_list holds a name that the GM
\* table or the radius table lacks fails with a PreconditionError before any
\* segment is propagated, segment 0 included.
C3_UnknownPlanetRejected ==
    (Ran /\ \E k \in 1..Len(RunArgs.planet_list) :
                \/ RunArgs.planet_list[k] \notin DOMAIN dict_GM
                \/ RunArgs.planet_list[k] \notin DOMAIN dict_planet_radius)
        => (outcome = "PreconditionError" /\ calls = << >>)

\* C4: after a run_simulation call that returns normally with
\* n = len(travel_days) = len(delta_V) >= 1, solutions holds exactly n arrays
\* in segment order, array i with travel_days[i] rows of 4 columns, and
\* timeseries and planet_coordinates are set.
C4_NormalReturnShape ==
    (Ran /\ outcome = "returned"
         /\ Len(RunArgs.travel_days) = Len(RunArgs.delta_V)
         /\ Len(RunArgs.travel_days) >= 1)
        => /\ Len(solutions) = Len(RunArgs.travel_days)
           /\ Len(returned) = Len(RunArgs.travel_days)
           /\ \A i \in 1..Len(solutions) :
                 /\ Len(solutions[i]) = RunArgs.travel_days[i]
                 /\ \A k \in 1..Len(solutions[i]) : Len(solutions[i][k]) = 4
                 /\ solutions[i] = returned[i].solution
                 /\ calls[i].travel_days = RunArgs.travel_days[i]
           /\ timeseries.some
           /\ planet_coordinates.some

\* a two-segment run with different durations has returned normally
C4_Witness ==
    /\ Ran /\ outcome = "returned"
    /\ Len(RunArgs.travel_days) = 2 /\ Len(RunArgs.delta_V) = 2
    /\ RunArgs.travel_days[1] # RunArgs.travel_days[2]
    /\ Len(solutions) = 2

\* C5: in every run_simulation call segment 0 is propagated with an empty
\* active-planet list and start offset 0, whatever planet_list is, and every
\* later segment with exactly the caller's planet_list.
C5_ActivePlanetLists ==
    Ran => \A k \in 1..Len(calls) :
              /\ (k = 1 => calls[k].planet_list = << >> /\ calls[k].t_start = 0)
              /\ (k > 1 => calls[k].planet_list = RunArgs.planet_list)

\* a run with a nonempty planet_list has propagated two segments
C5_Witness ==
    Ran /\ outcome = "returned" /\ Len(calls) >= 2 /\ RunArgs.planet_list # << >>

\* C6: for every segment i > 0 the state handed to the propagator has the
\* position of the last sample of segment i-1 and that sample's velocity
\* plus delta_V[i]; its start offset is the last sampled time of segment
\* i-1; the stored last sample of segment i-1 is as the propagator returned it.
C6_ManeuverAtBoundary ==
    Ran => \A k \in 2..Len(calls) :
              /\ calls[k].x0[1] = Last(returned[k - 1].solution)[1]
              /\ calls[k].x0[2] = Last(returned[k - 1].solution)[2]
              /\ calls[k].x0[3] = Last(returned[k - 1].solution)[3]
                                    + RunArgs.delta_V[k][1]
              /\ calls[k].x0[4] = Last(returned[k - 1].solution)[4]
                                    + RunArgs.delta_V[k][2]
              /\ calls[k].t_start = Last(returned[k - 1].t_span)
              /\ solutions[k - 1] = returned[k - 1].solution

\* a second segment has started after a maneuver with a nonzero delta-V
C6_Witness ==
    /\ Ran /\ Len(calls) >= 2 /\ outcome = "returned"
    /\ RunArgs.delta_V[2] # <<0, 0>>

\* C7: for a positive travel_days and any integer t_start the grid returned
\* by propagate_orbit_segment has travel_days samples, starts at t_start,
\* steps by 86400 seconds and ends at t_start + (travel_days - 1) * 86400.
C7_DailyGrid ==
    \A k \in 1..Len(returned) :
        calls[k].travel_days > 0
            => /\ Len(returned[k].t_span) = calls[k].travel_days
               /\ returned[k].t_span[1] = calls[k].t_start
               /\ \A j \in 1..(Len(returned[k].t_span) - 1) :
                     returned[k].t_span[j + 1] - returned[k].t_span[j] = 86400
               /\ Last(returned[k].t_span)
                    = calls[k].t_start + (calls[k].travel_days - 1) * 86400

\* a direct call with a negative start offset has returned a grid of
\* several samples
C7_Witness ==
    /\ ~Ran /\ pc = "done" /\ Len(returned) = 1
    /\ calls[1].travel_days >= 2
    /\ calls[1].t_start < 0 /\ calls[1].t_start % 86400 # 0
    /\ Len(returned[1].t_span) >= 2

\* C8: in a run of two or more segments the concatenated time grid is
\* strictly increasing by exactly 86400 seconds between consecutive samples,
\* also across segment boundaries: no time twice, no day skipped.
C8_NoOverlapNoGap ==
    (Ran /\ outcome = "returned" /\ Len(returned) >= 2)
        => \A j \in 1..(Len(ConcatGrid) - 1) :
              ConcatGrid[j + 1] - ConcatGrid[j] = 86400

\* C9: when the spacecraft-Earth distance is computed, sample k of the
\* concatenated solution was integrated at the elapsed time of timeseries[k]:
\* its grid time equals (timeseries[k] - mission start).
C9_SameInstantPairing ==
    (Ran /\ outcome = "returned" /\ "earth" \in Range(RunArgs.planet_list)
         /\ \A k \in 1..Len(RunArgs.travel_days) : RunArgs.travel_days[k] > 0)
        => \A k \in 1..Len(ConcatGrid) :
              /\ k <= Len(timeseries.val)
              /\ ConcatGrid[k] = (timeseries.val[k] - RunArgs.dt_start) * 86400

\* C10: with a zero delta-V between them and the same active-planet list,
\* a segment of duration a followed by a segment of duration b ends at the
\* same elapsed time and in the same state as one propagation of duration
\* a + b from the same initial state and start offset.
C10_ChainingAssociative ==
    (Ran /\ outcome = "returned"
         /\ Len(RunArgs.travel_days) = 2 /\ Len(RunArgs.delta_V) = 2
         /\ RunArgs.delta_V[2] = <<0, 0>> /\ RunArgs.planet_list = << >>)
        => /\ Last(returned[2].t_span)
                = Last(propagate_orbit_segment(
                           calls[1].x0,
                           RunArgs.travel_days[1] + RunArgs.travel_days[2],
                           calls[1].t_start, RunArgs.dt_start, << >>, "raises").t_span)
           /\ Last(returned[2].solution)
                = Last(propagate_orbit_segment(
                           calls[1].x0,
                           RunArgs.travel_days[1] + RunArgs.travel_days[2],
                           calls[1].t_start, RunArgs.dt_start, << >>, "raises").solution)

\* C11: after a run_simulation call that returns normally, timeseries has
\* exactly sum(travel_days) entries, entry k being dt_start + k days
\* (k from 0): first dt_start, last dt_start + (sum(travel_days) - 1) days,
\* none missing or repeated.
C11_DailyTimeseries ==
    (Ran /\ outcome = "returned")
        => /\ timeseries.some
           /\ Len(timeseries.val) = SumSeq(RunArgs.travel_days)
           /\ \A k \in 1..Len(timeseries.val) :
                 timeseries.val[k] = RunArgs.dt_start + (k - 1)

\* C12: whenever "earth" is among the queried planets and the Earth series
\* and the concatenated spacecraft solution differ in length, the distance
\* computation fails with a ShapeMismatchError: no distance series comes
\* out of it and no error of another type.
C12_ShapeMismatchRejected ==
    (Ran /\ planet_coordinates.some
         /\ "earth" \in DOMAIN planet_coordinates.val
         /\ Len(planet_coordinates.val["earth"]["x"]) # Len(Column(solutions, 1)))
        => outcome = "ShapeMismatchError"

\* an equation of motion was evaluated directly
Evaluated(fn) == evaluated.some /\ evaluated.val.fn = fn
EvalIn == evaluated.val.in
EvalOut == evaluated.val.out

\* Euclidean distance (as the functions compute it) from position x to q
Dist(x, q) == ISqrt((x[1] - q[1]) * (x[1] - q[1]) + (x[2] - q[2]) * (x[2] - q[2]))

\* the position of planet p at the instant dt_start + t seconds
PlanetAt(p, t, dt_start) ==
    <<get_body_barycentric(p, dt_start + (t \div SecPerDay)).x,
      get_body_barycentric(p, dt_start + (t \div SecPerDay)).y>>

\* every name of the list is in the ephemeris and in both tables
AllKnown(planet_list) ==
    \A k \in 1..Len(planet_list) :
        /\ planet_list[k] \in EphemerisBodies
        /\ planet_list[k] \in DOMAIN dict_GM
        /\ planet_list[k] \in DOMAIN dict_planet_radius

\* C13: whenever the equation of motion is evaluated with the spacecraft
\* closer to an active planet than that planet's radius (d = 0 included),
\* the evaluation ends in a SwingbyCollisionError raised to the caller: no
\* derivative is returned and the process is not terminated.
C13_CollisionIsTypedError ==
    /\ (Evaluated("circular_equation_of_motion_nbody")
            /\ Dist(EvalIn.x, CircularEarth(EvalIn.t, EvalIn.theta1)) < EarthRadiusKm)
          => EvalOut.err = "SwingbyCollisionError"
    /\ (Evaluated("orbital_equation_of_motion_nbody")
            /\ AllKnown(EvalIn.planet_list)
            /\ \E k \in 1..Len(EvalIn.planet_list) :
                   Dist(EvalIn.x, PlanetAt(EvalIn.planet_list[k], EvalIn.t,
                                           EvalIn.dt_start))
                     < dict_planet_radius[EvalIn.planet_list[k]])
          => EvalOut.err = "SwingbyCollisionError"

\* the last propagate_orbit_segment call of the run raised
SegmentFailed == Ran /\ Len(calls) = Len(returned) + 1

\* C14: if the propagation of segment i fails, run_simulation ends with
\* that same error at once: the failed call is the last one (no later
\* segment, no retry), the time series, the planet coordinates and the
\* distance are not computed, and the call does not return normally.
C14_FailureSurfaces ==
    Ran => /\ Len(calls) <= Len(returned) + 1
           /\ SegmentFailed
                => /\ outcome = propagate_orbit_segment(
                                    Last(calls).x0, Last(calls).travel_days,
                                    Last(calls).t_start, RunArgs.dt_start,
                                    Last(calls).planet_list, "raises").err
                   /\ outcome \notin {"returned", "none"}
                   /\ Len(solutions) = Len(returned)
                   /\ timeseries = None
                   /\ planet_coordinates = None
                   /\ spacecraft_earth_distance = None

\* the second segment of a run ended in a collision
C14_Witness ==
    /\ SegmentFailed /\ Len(calls) = 2
    /\ Len(RunArgs.travel_days) = 2 /\ Len(RunArgs.delta_V) = 2
    /\ outcome = "SwingbyCollisionError"

\* C15: after any earlier run_simulation calls on the instance, a call that
\* returns normally leaves solutions, timeseries, planet_coordinates and
\* spacecraft_earth_distance as the same call leaves them on a fresh
\* instance.
C15_RunsIndependent ==
    (Ran /\ ~saved.some /\ outcome = "returned")
        => /\ solutions = run_simulation(Fresh, RunArgs, "raises").solutions
           /\ timeseries = run_simulation(Fresh, RunArgs, "raises").timeseries
           /\ planet_coordinates
                = run_simulation(Fresh, RunArgs, "raises").planet_coordinates
           /\ spacecraft_earth_distance
                = run_simulation(Fresh, RunArgs, "raises").spacecraft_earth_distance

\* C16: if no run_simulation call on the instance has returned normally,
\* save_results raises ValueError before it creates the output directory
\* and before it calls a plotter method.
C16_SaveNeedsCompletedRun ==
    (saved.some /\ ~succeeded)
        => /\ saved.val.outcome = "ValueError"
           /\ ~saved.val.mkdir
           /\ saved.val.plots = << >>

\* the three equations of motion
EquationsOfMotion == {"orbital_equation_of_motion_twobody",
                      "circular_equation_of_motion_nbody",
                      "orbital_equation_of_motion_nbody"}

\* C17: whenever an equation of motion returns a derivative (no collision,
\* no other error), its first two components are vx and vy of the input
\* state, for every state, time and active-planet list.
C17_KinematicIdentity ==
    (evaluated.some /\ evaluated.val.fn \in EquationsOfMotion
         /\ EvalOut.err = "none")
        => /\ EvalOut.dxdt[1] = EvalIn.x[3]
           /\ EvalOut.dxdt[2] = EvalIn.x[4]

\* the N-body equation returned a derivative with two planets active, for
\* a state whose vx and vy differ
C17_Witness ==
    /\ Evaluated("orbital_equation_of_motion_nbody")
    /\ Len(EvalIn.planet_list) = 2
    /\ EvalOut.err = "none"
    /\ EvalIn.x[3] # EvalIn.x[4]

\* C18: with an empty active-planet list the N-body equation of motion
\* returns, for every state and time, the derivative of the two-body
\* Sun-only equation, whose GM is the table's entry for the Sun; the
\* mission start plays no part in it.
C18_EmptyListIsTwoBody ==
    (Evaluated("orbital_equation_of_motion_nbody") /\ EvalIn.planet_list = << >>)
        => /\ EvalOut.err = "none"
           /\ EvalOut.dxdt
                = orbital_equation_of_motion_twobody(EvalIn.x, EvalIn.t).dxdt
           /\ \A d \in StartDays :
                 EvalOut = orbital_equation_of_motion_nbody(EvalIn.x, EvalIn.t, d, << >>)

\* the N-body equation was evaluated with no planet, off both axes, at a
\* later time
C18_Witness ==
    /\ Evaluated("orbital_equation_of_motion_nbody")
    /\ EvalIn.planet_list = << >>
    /\ EvalIn.x[1] # 0 /\ EvalIn.x[2] # 0 /\ EvalIn.t > 0
    /\ EvalOut.dxdt[3] # 0 /\ EvalOut.dxdt[4] # 0

\* C19: setup_initial_conditions returns a 4-component state at
\* (x_e + k * R_earth, y_e) for a k between 1 and 3, with the velocity
\* calculate_initial_velocity(v_inf) returns; the offset puts the spacecraft
\* farther from the Sun than Earth, whatever the sign of x_e.
C19_InitialStateOutward ==
    Evaluated("setup_initial_conditions")
        => /\ Len(EvalOut) = 4
           /\ \E k \in 1..3 :
                 EvalOut[1] = get_body_barycentric("earth", EvalIn.dt_start).x
                                + k * dict_planet_radius["earth"]
           /\ EvalOut[2] = get_body_barycentric("earth", EvalIn.dt_start).y
           /\ <<EvalOut[3], EvalOut[4]>> = calculate_initial_velocity(EvalIn.v_inf)
           /\ EvalOut[1] * EvalOut[1] + EvalOut[2] * EvalOut[2]
                > get_body_barycentric("earth", EvalIn.dt_start).x
                    * get_body_barycentric("earth", EvalIn.dt_start).x
                  + get_body_barycentric("earth", EvalIn.dt_start).y
                    * get_body_barycentric("earth", EvalIn.dt_start).y

ValidLists ==
    /\ Len(RunArgs.travel_days) = Len(RunArgs.delta_V)
    /\ Len(RunArgs.travel_days) >= 1
    /\ \A k \in 1..Len(RunArgs.travel_days) : RunArgs.travel_days[k] > 0

\* C21: after a run_simulation call that returns normally,
\* planet_coordinates has exactly the names of planet_list as keys, every
\* coordinate series has len(timeseries) entries, and entry k of a planet's
\* x and y series is that planet's position at timeseries[k]; also when
\* planet_list names a planet more than once.
C21_CoordinatesPerTimestamp ==
    (Ran /\ outcome = "returned")
        => /\ DOMAIN planet_coordinates.val = Range(RunArgs.planet_list)
           /\ \A p \in Range(RunArgs.planet_list) :
                 /\ \A key \in {"x", "y", "z"} :
                       Len(planet_coordinates.val[p][key]) = Len(timeseries.val)
                 /\ \A k \in 1..Len(planet_coordinates.val[p]["x"]) :
                       /\ k <= Len(timeseries.val)
                       /\ planet_coordinates.val[p]["x"][k]
                            = get_body_barycentric(p, timeseries.val[k]).x
                       /\ planet_coordinates.val[p]["y"][k]
                            = get_body_barycentric(p, timeseries.val[k]).y

\* C23: for every run_simulation call with equal-length lists of positive
\* durations that gets as far as the distance computation, the rows of all
\* solutions together number len(timeseries) = sum(travel_days); when
\* "earth" is in planet_list the Earth series has that length too and
\* spacecraft_earth_distance gets sum(travel_days) entries.
C23_SameLengthArrays ==
    (Ran /\ ValidLists /\ planet_coordinates.some)
        => /\ Len(Column(solutions, 1)) = Len(timeseries.val)
           /\ Len(timeseries.val) = SumSeq(RunArgs.travel_days)
           /\ "earth" \in Range(RunArgs.planet_list)
                => /\ Len(planet_coordinates.val["earth"]["x"])
                        = Len(Column(solutions, 1))
                   /\ Len(planet_coordinates.val["earth"]["y"])
                        = Len(Column(solutions, 2))
                   /\ outcome = "returned"
                   /\ spacecraft_earth_distance.some
                   /\ Len(spacecraft_earth_distance.val) = SumSeq(RunArgs.travel_days)

\* the arguments of the run with delta_V[0] replaced by d
WithFirstDeltaV(d) == [RunArgs EXCEPT !.delta_V[1] = d]

\* the fields a run leaves on a fresh instance
Fields(self) == <<self.solutions, self.timeseries, self.planet_coordinates,
                  self.spacecraft_earth_distance, self.outcome>>

C22_ZeroAngleIdentity ==
    (Evaluated("transform_to_rotating_coordinate_system")
         /\ \A k \in 1..Len(EvalIn.time) : EvalIn.omega * EvalIn.time[k] = 0)
        => /\ EvalOut[1] = EvalIn.x
           /\ EvalOut[2] = EvalIn.y

\* two samples with different nonzero x and y were transformed at time 0
\* with a nonzero omega
C22_Witness ==
    /\ Evaluated("transform_to_rotating_coordinate_system")
    /\ EvalIn.omega # 0 /\ EvalIn.time = <<0, 0>>
    /\ EvalIn.x = <<2, 0 - 1>> /\ EvalIn.y = <<0 - 1, 2>>

\* no name appears twice in the list
NoRepeats(planet_list) == Cardinality(Range(planet_list)) = Len(planet_list)

\* C25: get_planet_coord returns for every body of planet_list a mapping
\* with keys 'x', 'y', 'z' holding the body's x, y and z at the timestamp,
\* 'z' being the z coordinate, and get_planet_coord_timeseries keeps this
\* for every timestamp and coordinate.
C25_CoordinateKeys ==
    /\ (Evaluated("get_planet_coord") /\ EvalOut.err = "none")
          => \A p \in Range(EvalIn.planet_list) :
                /\ DOMAIN EvalOut.val[p] = {"x", "y", "z"}
                /\ \A key \in {"x", "y", "z"} :
                      EvalOut.val[p][key]
                        = get_body_barycentric(p, EvalIn.timestamp)[key]
    /\ (Evaluated("get_planet_coord_timeseries") /\ EvalOut.err = "none"
            /\ NoRepeats(EvalIn.planet_list))
          => \A p \in Range(EvalIn.planet_list) :
                \A key \in {"x", "y", "z"} :
                   /\ Len(EvalOut.val[p][key]) = Len(EvalIn.timeseries)
                   /\ \A k \in 1..Len(EvalIn.timeseries) :
                         EvalOut.val[p][key][k]
                           = get_body_barycentric(p, EvalIn.timeseries[k])[key]

\* the sum of the magnitudes of the maneuvers
RECURSIVE TotalDeltaV(_)
TotalDeltaV(delta_V) ==
    IF delta_V = << >> THEN 0
    ELSE ISqrt(Head(delta_V)[1] * Head(delta_V)[1] + Head(delta_V)[2] * Head(delta_V)[2])
         + TotalDeltaV(Tail(delta_V))

\* C26: in pluto_mission.main, once run_simulation has returned normally,
\* the script raises ValueError if and only if the total delta-V exceeds the
\* budget, and otherwise calls save_results; no other error occurs between
\* the return of run_simulation and the call of save_results.
C26_BudgetCheck ==
    (Evaluated("pluto_mission.main") /\ EvalOut.run = "returned")
        => /\ (EvalOut.outcome = "ValueError" /\ ~EvalOut.save.some)
                <=> TotalDeltaV(EvalIn.delta_V) > MaxTotalDeltaV
           /\ TotalDeltaV(EvalIn.delta_V) <= MaxTotalDeltaV => EvalOut.save.some
           /\ ~EvalOut.save.some => EvalOut.outcome = "ValueError"

====
